---- MODULE Spec2Model ----
(***************************************************************************)
(* Precision-safe decimal normalization of sxt-proof-of-sql:               *)
(* crates/proofs/src/base/math/decimal.rs (Precision, Decimal<S>,          *)
(* match_decimal, get_limbs_and_sign, decimal_string_to_scaled_limbs,      *)
(* scale_scalar).                                                          *)
(*                                                                         *)
(* Big numbers are little-endian sequences of 16-bit words, so that every  *)
(* intermediate value stays inside TLC's integers: a u64 limb is four      *)
(* words, the 4-limb magnitude is sixteen words, a field element is the    *)
(* sixteen words of a value below the field order.                         *)
(***************************************************************************)
EXTENDS Integers, Sequences, FiniteSets, TLC

VARIABLES
    overflow_checks, \* build option: TRUE = arithmetic overflow panics, FALSE = it wraps
    pc,              \* position of the caller: "ready" or the name of the call made
    lit,             \* the DecimalUnknown literal handed to the matcher
    target,          \* the requested target scale (i8)
    ret,             \* what the last call returned (Ok / Err / Panic record)
    dec,             \* the Decimal receiver of with_precision_and_scale
    arg,             \* remaining arguments of the last Decimal / scale_scalar call
    batch            \* a batch of rows handed to several workers, and their results

vars == <<overflow_checks, pc, lit, target, ret, dec, arg, batch>>

----------------------------------------------------------------------------
(* Words and unsigned big numbers                                          *)

WordBase == 2^16

Zeros(n) == [i \in 1..n |-> 0]

RECURSIVE Trim(_)
\* drop the most significant zero words (num-bigint keeps magnitudes normalised)
Trim(x) == IF x = <<>> THEN <<>>
           ELSE IF x[Len(x)] = 0 THEN Trim(SubSeq(x, 1, Len(x) - 1))
           ELSE x

RECURSIVE MulAdd(_, _, _)
\* x * m + c for a small multiplier m and carry c, length grows as needed
MulAdd(x, m, c) ==
    IF x = <<>>
    THEN IF c = 0 THEN <<>> ELSE <<c % WordBase>> \o MulAdd(<<>>, m, c \div WordBase)
    ELSE LET t == Head(x) * m + c
         IN  <<t % WordBase>> \o MulAdd(Tail(x), m, t \div WordBase)

\* zero-extend or cut to exactly n words
Fit(x, n) == [i \in 1..n |-> IF i <= Len(x) THEN x[i] ELSE 0]

RECURSIVE GeqFrom(_, _, _)
\* x >= y for two numbers of equal length, compared from word i downwards
GeqFrom(x, y, i) ==
    IF i = 0 THEN TRUE
    ELSE IF x[i] > y[i] THEN TRUE
    ELSE IF x[i] < y[i] THEN FALSE
    ELSE GeqFrom(x, y, i - 1)

Geq(x, y) == GeqFrom(x, y, Len(x))

RECURSIVE SubFrom(_, _, _, _)
\* x - y (x >= y, equal length), word i upwards with borrow b
SubFrom(x, y, i, b) ==
    IF i > Len(x) THEN <<>>
    ELSE LET t == x[i] - y[i] - b
         IN  IF t < 0 THEN <<t + WordBase>> \o SubFrom(x, y, i + 1, 1)
             ELSE <<t>> \o SubFrom(x, y, i + 1, 0)

Sub(x, y) == SubFrom(x, y, 1, 0)

----------------------------------------------------------------------------
(* The scalar field S (Curve25519Scalar): values modulo the group order    *)

FieldWords == 16

\* 7237005577332262213973186563042994240857116359379907606001950938285454250989
\* = 2^252 + 27742317777372353535851937790883648493
FieldOrder == <<54253, 23797, 25370, 22546, 40150, 41719, 63966, 5342,
                0, 0, 0, 0, 0, 0, 0, 4096>>

RECURSIVE Reduce(_)
\* x mod FieldOrder for x of any length, by repeated subtraction
\* (x is at most a small multiple of the order wherever this is used)
Reduce(x) ==
    LET n == IF Len(Trim(x)) > FieldWords THEN Len(Trim(x)) ELSE FieldWords
        a == Fit(x, n)
        p == Fit(FieldOrder, n)
    IN  IF Geq(a, p) THEN Reduce(Sub(a, p)) ELSE Fit(a, FieldWords)

ZERO == Zeros(FieldWords)
ONE == Fit(<<1>>, FieldWords)

\* mutant: the magnitude is cut to the 252 bits of an element, not reduced
FieldFromLimbs_Masked(limbs) ==
    LET w == limbs[1] \o limbs[2] \o limbs[3] \o limbs[4]
    IN  [i \in 1..16 |-> IF i = 16 THEN w[i] % 4096 ELSE w[i]]

\* S::from([u64; 4]): the 256-bit magnitude reduced modulo the order
FieldFromLimbs(limbs) == Reduce(limbs[1] \o limbs[2] \o limbs[3] \o limbs[4])

\* -s
FieldNeg(s) == IF s = ZERO THEN ZERO ELSE Sub(FieldOrder, s)

\* s * ten for the field element ten = S::from(10)
FieldMulTen(s) == Reduce(MulAdd(s, 10, 0))

\* S::from(&i64) / S::from(&i128) of a signed integer given as sign and magnitude
FieldFromInt(neg, mag) == IF neg THEN FieldNeg(Reduce(mag)) ELSE Reduce(mag)

----------------------------------------------------------------------------
(* Machine integers: u8 and i8 arithmetic as rustc compiles it             *)

MAX_SUPPORTED_PRECISION == 75

I8 == -128..127

\* `x as u8` of an i8 (two's complement reinterpretation)
AsU8(x) == (x + 256) % 256

\* `x as i8` of a u8
AsI8(x) == IF x > 127 THEN x - 256 ELSE x

WrapU8(x) == (x + 512) % 256

WrapI8(x) == ((x + 128 + 512) % 256) - 128

SaturatingAddU8(a, b) == IF a + b > 255 THEN 255 ELSE a + b

SaturatingSubU8(a, b) == IF a - b < 0 THEN 0 ELSE a - b

MinOf(a, b) == IF a < b THEN a ELSE b

Panic == [tag |-> "Panic"]

Err(kind) == [tag |-> "Err", kind |-> kind]

----------------------------------------------------------------------------
(* Precision: the limit-enforced u8 newtype                                *)

U8 == 0..255

\* the tuple struct Precision(u8)
Precision(value) == [inner |-> value]

\* Precision::value
PrecisionValue(self) == self.inner

PrecisionMessage == "Precision must be larger than zero and less than 76"

\* mutant: only the upper limit is enforced
PrecisionNew_ZeroAllowed(value) ==
    IF value > MAX_SUPPORTED_PRECISION
    THEN [tag |-> "Err", msg |-> PrecisionMessage]
    ELSE [tag |-> "Ok", value |-> Precision(value)]

\* Precision::new
PrecisionNew(value) ==
    IF value > MAX_SUPPORTED_PRECISION \/ value = 0
    THEN [tag |-> "Err", msg |-> PrecisionMessage]
    ELSE [tag |-> "Ok", value |-> Precision(value)]

\* u8::deserialize(deserializer)?: an integer on the wire that is no u8 is
\* refused by the deserializer itself
DeserializeU8(wire) ==
    IF wire \in U8 THEN [tag |-> "Ok", value |-> wire]
    ELSE [tag |-> "Err", msg |-> "invalid value: expected u8"]

\* mutant: the deserialized byte is wrapped without validation
deserialize_Unvalidated(wire) ==
    LET value == DeserializeU8(wire)
    IN  IF value.tag # "Ok" THEN value
        ELSE [tag |-> "Ok", value |-> Precision(value.value)]

\* <Precision as Deserialize>::deserialize; serde::de::Error::custom keeps
\* the message of the constructor
deserialize(wire) ==
    LET value == DeserializeU8(wire)
    IN  IF value.tag # "Ok" THEN value
        ELSE PrecisionNew(value.value)

----------------------------------------------------------------------------
(* DecimalUnknown: the literal produced by the SQL parser                  *)

DigitChars == <<"0", "1", "2", "3", "4", "5", "6", "7", "8", "9">>

IsDigit(c) == \E i \in 1..10 : DigitChars[i] = c

DigitVal(c) == (CHOOSE i \in 1..10 : DigitChars[i] = c) - 1

Rep(c, n) == [i \in 1..n |-> c]

\* A literal (-)?int(.frac)?: value() is the text with the point removed,
\* precision() the number of digits, scale() the number of fraction digits.
DecimalUnknownNew(neg, int, frac) ==
    [value     |-> (IF neg THEN <<"-">> ELSE <<>>) \o int \o frac,
     precision |-> Len(int) + Len(frac),
     scale     |-> Len(frac)]

\* the literal of the opposite number of an unsigned literal
Negated(d) == [d EXCEPT !.value = <<"-">> \o @]

----------------------------------------------------------------------------
(* num_bigint::BigInt                                                      *)

RECURSIVE ParseDigits(_, _, _, _)
\* the digits text[lo..hi] appended, left to right, to the number acc
\* (the range is halved and the left half computed first, which keeps the
\* evaluation shallow: Len(left) >= 0 is always true)
ParseDigits(text, lo, hi, acc) ==
    IF lo > hi THEN acc
    ELSE IF lo = hi THEN MulAdd(acc, 10, DigitVal(text[lo]))
    ELSE LET mid  == (lo + hi) \div 2
             left == ParseDigits(text, lo, mid, acc)
         IN  IF Len(left) >= 0 THEN ParseDigits(text, mid + 1, hi, left) ELSE left

\* BigInt::from_str accepts an optional sign followed by at least one digit
WellFormed(text) ==
    LET body == IF text # <<>> /\ text[1] = "-" THEN Tail(text) ELSE text
    IN  body # <<>> /\ \A i \in 1..Len(body) : IsDigit(body[i])

\* BigInt::from_str(text).to_u64_digits(): the sign and the normalised magnitude
BigIntFromStr(text) ==
    LET neg  == text[1] = "-"
        body == IF neg THEN Tail(text) ELSE text
        mag  == Trim(ParseDigits(body, 1, Len(body), <<>>))
    IN  [sign |-> IF mag = <<>> THEN "NoSign" ELSE IF neg THEN "Minus" ELSE "Plus",
         mag  |-> mag]

\* magnitude -> [u64; 4]: zero-filled or cut to four limbs of four words each
ToLimbs(mag) ==
    LET w == Fit(mag, FieldWords)
    IN  [k \in 1..4 |-> SubSeq(w, 4 * k - 3, 4 * k)]

----------------------------------------------------------------------------
(* decimal_string_to_scaled_limbs, get_limbs_and_sign, match_decimal       *)

None == [some |-> FALSE, v |-> 0]

Some(v) == [some |-> TRUE, v |-> v]

\* mutant: the scale the literal already has is not subtracted
ActualZerosToAppend_ScaleOnly(decimal, scale) ==
    MinOf(AsU8(IF scale.some THEN scale.v ELSE 0),
          SaturatingSubU8(75, Len(decimal.value)))

\* number of '0' characters decimal_string_to_scaled_limbs appends
ActualZerosToAppend(decimal, scale) ==
    MinOf(SaturatingSubU8(AsU8(IF scale.some THEN scale.v ELSE 0), AsU8(decimal.scale)),
          SaturatingSubU8(75, Len(decimal.value)))

decimal_string_to_scaled_limbs(decimal, scale) ==
    IF Len(decimal.value) > 255 THEN Panic                 \* try_into::<u8>().unwrap()
    ELSE LET value == decimal.value \o Rep("0", ActualZerosToAppend(decimal, scale))
         IN  IF ~WellFormed(value) THEN Panic              \* expect("Failed to convert ...")
             ELSE LET b == BigIntFromStr(value)
                  IN  [tag |-> "Ok", limbs |-> ToLimbs(b.mag), sign |-> b.sign]

\* mutant: the limit is taken one too high
PrecisionExceeded_OffByOne(d) == d.precision > MAX_SUPPORTED_PRECISION + 1

\* `d.precision() > MAX_SUPPORTED_PRECISION`
PrecisionExceeded(d) == d.precision > MAX_SUPPORTED_PRECISION

\* mutant: a scale one above the target is let through
ScalingDown_OffByOne(d, scale) == d.scale > scale + 1

\* `d.scale() > scale`: matching would have to discard digits
ScalingDown(d, scale) == d.scale > scale

\* `scale as u8 - d.scale() as u8`, before any wrap
ScaleDiffU8(d, scale) == AsU8(scale) - AsU8(d.scale)

\* `d.scale() < scale && d.precision().saturating_add(..) <= MAX_SUPPORTED_PRECISION`
RoomToScaleUp(d, scale) ==
    /\ d.scale < scale
    /\ SaturatingAddU8(d.precision, WrapU8(ScaleDiffU8(d, scale))) <= MAX_SUPPORTED_PRECISION

\* mutant: a sum of exactly 76 is let through
ScalingExceedsPrecision_Strict(d, scale) ==
    /\ WrapU8(d.precision + AsU8(scale)) > MAX_SUPPORTED_PRECISION + 1
    /\ scale > d.scale

\* `d.precision() + scale as u8 > MAX_SUPPORTED_PRECISION && scale > d.scale`
ScalingExceedsPrecision(d, scale) ==
    /\ WrapU8(d.precision + AsU8(scale)) > MAX_SUPPORTED_PRECISION
    /\ scale > d.scale

\* `d.precision() as i8 + scale`, the number put in the error message
MessageSum(d, scale) == AsI8(d.precision) + scale

\* chk: overflow checks are compiled in (debug builds), so an overflowing
\* `+` or `-` panics instead of wrapping.
get_limbs_and_sign(d, scale, chk) ==
    IF PrecisionExceeded(d) THEN Err("PrecisionParseError")
    ELSE IF ScalingDown(d, scale) THEN Err("DecimalRoundingError")
    ELSE IF d.scale < scale /\ ScaleDiffU8(d, scale) < 0 /\ chk THEN Panic
    ELSE IF RoomToScaleUp(d, scale)
         THEN decimal_string_to_scaled_limbs(d, Some(scale))
    ELSE IF d.precision + AsU8(scale) > 255 /\ chk THEN Panic
    ELSE IF ScalingExceedsPrecision(d, scale)
         THEN IF MessageSum(d, scale) \notin I8 /\ chk THEN Panic
              ELSE Err("PrecisionParseError")
    ELSE decimal_string_to_scaled_limbs(d, None)

\* the row of the decision table get_limbs_and_sign ends in: the returns at
\* lines 153, 159, 171, 174 and 180, in this order
SelectedRule(d, scale) ==
    IF PrecisionExceeded(d) THEN 1
    ELSE IF ScalingDown(d, scale) THEN 2
    ELSE IF RoomToScaleUp(d, scale) THEN 3
    ELSE IF ScalingExceedsPrecision(d, scale) THEN 4
    ELSE 5

match_decimal(d, scale, chk) ==
    LET r == get_limbs_and_sign(d, scale, chk)
    IN  IF r.tag # "Ok" THEN r
        ELSE LET scalar == FieldFromLimbs(r.limbs)
             IN  [tag |-> "Ok",
                  value |-> IF r.sign = "Minus" THEN FieldNeg(scalar) ELSE scalar]

----------------------------------------------------------------------------
(* scale_scalar and Decimal<S>                                             *)

Ok(v) == [tag |-> "Ok", value |-> v]

RECURSIVE MulTenTimes(_, _)
\* `for _ in 0..n { res *= ten }`: n multiplications, one after the other
\* (the count is halved and the first half computed first, which keeps the
\* evaluation shallow: Len(first) >= 0 is always true)
MulTenTimes(res, n) ==
    IF n <= 0 THEN res
    ELSE IF n = 1 THEN FieldMulTen(res)
    ELSE LET first == MulTenTimes(res, n \div 2)
         IN  IF Len(first) >= 0 THEN MulTenTimes(first, n - n \div 2) ELSE first

\* mutant: no more than 75 multiplications are made
scale_scalar_Capped(s, scale) ==
    IF scale < 0 THEN Err("DecimalRoundingError")
    ELSE Ok(MulTenTimes(s, MinOf(scale, MAX_SUPPORTED_PRECISION)))

\* mutant: the loop runs over 0..=scale
scale_scalar_OneMore(s, scale) ==
    IF scale < 0 THEN Err("DecimalRoundingError")
    ELSE Ok(MulTenTimes(s, scale + 1))

scale_scalar(s, scale) ==
    IF scale < 0 THEN Err("DecimalRoundingError")
    ELSE Ok(MulTenTimes(s, scale))

\* Decimal::new
Decimal(value, precision, scale) ==
    [value |-> value, precision |-> precision, scale |-> scale]

\* mutant: the headroom for the added digits is not checked
with_precision_and_scale_NoHeadroom(self, new_precision, new_scale, chk) ==
    LET exact == new_scale - self.scale
        scale_factor == WrapI8(exact)
    IN  IF exact \notin I8 /\ chk THEN Panic
        ELSE IF scale_factor < 0 \/ new_precision < self.precision
        THEN Err("DecimalRoundingError")
        ELSE Ok(Decimal(MulTenTimes(self.value, scale_factor), new_precision, new_scale))

\* mutant: equal headroom is refused as well
with_precision_and_scale_Strict(self, new_precision, new_scale, chk) ==
    LET exact == new_scale - self.scale
        scale_factor == WrapI8(exact)
    IN  IF exact \notin I8 /\ chk THEN Panic
        ELSE IF scale_factor < 0
                \/ new_precision <= self.precision + AsU8(scale_factor)
        THEN Err("DecimalRoundingError")
        ELSE Ok(Decimal(MulTenTimes(self.value, scale_factor), new_precision, new_scale))

with_precision_and_scale(self, new_precision, new_scale, chk) ==
    LET exact == new_scale - self.scale                   \* new_scale - self.scale (i8)
        scale_factor == WrapI8(exact)
    IN  IF exact \notin I8 /\ chk THEN Panic
        ELSE IF scale_factor < 0
                \/ new_precision < self.precision + AsU8(scale_factor)
        THEN Err("DecimalRoundingError")
        ELSE LET scaled_value == scale_scalar(self.value, scale_factor)
             IN  IF scaled_value.tag # "Ok" THEN scaled_value
                 ELSE Ok(Decimal(scaled_value.value, new_precision, new_scale))

\* an i64 / i128 argument is written as its decimal text; S::from(&value)
FieldFromText(value) ==
    LET b == BigIntFromStr(value)
    IN  FieldFromInt(b.sign = "Minus", b.mag)

\* mutant: the headroom for the scale is not checked
from_i64_NoHeadroom(value, precision, scale) ==
    IF precision < 19 \/ scale < 0 THEN Err("DecimalRoundingError")
    ELSE Ok(Decimal(MulTenTimes(FieldFromText(value), scale), precision, scale))

from_i64(value, precision, scale) ==
    LET MINIMAL_PRECISION == 19
        raw_precision == precision
    IN  IF raw_precision < MINIMAL_PRECISION THEN Err("DecimalRoundingError")
        ELSE IF scale < 0 \/ raw_precision < MINIMAL_PRECISION + AsU8(scale)
        THEN Err("DecimalRoundingError")
        ELSE LET scaled_value == scale_scalar(FieldFromText(value), scale)
             IN  IF scaled_value.tag # "Ok" THEN scaled_value
                 ELSE Ok(Decimal(scaled_value.value, precision, scale))

\* mutant: the headroom for the scale is not checked
from_i128_NoHeadroom(value, precision, scale) ==
    IF precision < 39 \/ scale < 0 THEN Err("DecimalRoundingError")
    ELSE Ok(Decimal(MulTenTimes(FieldFromText(value), scale), precision, scale))

\* mutant: the minimal precision of from_i64 is used
from_i128_MinimalOfI64(value, precision, scale) ==
    IF precision < 19 \/ scale < 0 \/ precision < 19 + AsU8(scale)
    THEN Err("DecimalRoundingError")
    ELSE Ok(Decimal(MulTenTimes(FieldFromText(value), scale), precision, scale))

from_i128(value, precision, scale) ==
    LET MINIMAL_PRECISION == 39
        raw_precision == precision
    IN  IF raw_precision < MINIMAL_PRECISION THEN Err("DecimalRoundingError")
        ELSE IF scale < 0 \/ raw_precision < MINIMAL_PRECISION + AsU8(scale)
        THEN Err("DecimalRoundingError")
        ELSE LET scaled_value == scale_scalar(FieldFromText(value), scale)
             IN  IF scaled_value.tag # "Ok" THEN scaled_value
                 ELSE Ok(Decimal(scaled_value.value, precision, scale))

----------------------------------------------------------------------------
(* The literals and target scales the matcher is driven with               *)

\* longest run of nines used as an integer part
MaxRun == 76

RunLens == {1, 2} \cup ((MaxRun - 3)..MaxRun)

IntParts == {Rep("9", n) : n \in RunLens}
            \cup {<<"0">>, <<"1">>, <<"1", "2", "3">>, <<"0", "7">>}

FracParts == {<<>>, <<"1">>, <<"4", "5">>, <<"0">>, <<"0", "0", "0", "4">>}

Literals == {DecimalUnknownNew(neg, int, frac) :
                neg \in BOOLEAN, int \in IntParts, frac \in FracParts}

Targets == {-128, -1, 0, 1, 2, 3, 4, 30, 53, 74, 75, 127}

NoRet == [tag |-> "None"]

NoLit == [value |-> <<>>, precision |-> 0, scale |-> 0]

NoDec == [value |-> ZERO, precision |-> 0, scale |-> 0]

NoArg == [op |-> "none"]

NoBatch == [rows |-> <<>>]

Init ==
    /\ overflow_checks \in BOOLEAN
    /\ batch = NoBatch
    /\ pc = "ready"
    /\ lit \in Literals
    /\ target \in Targets
    /\ ret = NoRet
    /\ dec = NoDec
    /\ arg = NoArg

GetLimbsAndSign ==
    /\ pc = "ready"
    /\ pc' = "get_limbs_and_sign"
    /\ ret' = get_limbs_and_sign(lit, target, overflow_checks)
    /\ UNCHANGED <<batch, overflow_checks, lit, target, dec, arg>>

MatchDecimal ==
    /\ pc = "ready"
    /\ pc' = "match_decimal"
    /\ ret' = match_decimal(lit, target, overflow_checks)
    /\ UNCHANGED <<batch, overflow_checks, lit, target, dec, arg>>

Next == GetLimbsAndSign \/ MatchDecimal

Spec == Init /\ [][Next]_vars

----------------------------------------------------------------------------
(* Decimal<S> and scale_scalar driven with sampled arguments               *)

I64_MAX == <<"9", "2", "2", "3", "3", "7", "2", "0", "3", "6",
             "8", "5", "4", "7", "7", "5", "8", "0", "7">>

I64_MIN == <<"-", "9", "2", "2", "3", "3", "7", "2", "0", "3", "6",
             "8", "5", "4", "7", "7", "5", "8", "0", "8">>

I128_MAX == <<"1", "7", "0", "1", "4", "1", "1", "8", "3", "4", "6", "0", "4",
              "6", "9", "2", "3", "1", "7", "3", "1", "6", "8", "7", "3", "0",
              "3", "7", "1", "5", "8", "8", "4", "1", "0", "5", "7", "2", "7">>

I128_MIN == <<"-", "1", "7", "0", "1", "4", "1", "1", "8", "3", "4", "6", "0", "4",
              "6", "9", "2", "3", "1", "7", "3", "1", "6", "8", "7", "3", "0",
              "3", "7", "1", "5", "8", "8", "4", "1", "0", "5", "7", "2", "8">>

SmallInts == {<<"0">>, <<"1">>, <<"-", "1">>, <<"1", "2">>, <<"-", "9", "1">>,
              <<"1", "0", "0">>, <<"-", "1", "3", "4">>}

I64Values == SmallInts \cup {I64_MAX, I64_MIN}

I128Values == SmallInts \cup {I64_MIN, I128_MAX, I128_MIN}

\* (p - 1) / 2
MAX_SIGNED == <<59894, 11898, 12685, 11273, 52843, 20859, 31983, 2671,
                0, 0, 0, 0, 0, 0, 0, 2048>>

Scalars == {FieldFromText(t) : t \in SmallInts} \cup {MAX_SIGNED, FieldNeg(ONE)}

\* the small receiver scales and scale arguments 0..MaxStep are all tried
MaxStep == 4

Precisions == {1, 2, 3, 18, 19, 20, 21, 25, 38, 39, 43, 65, 74, 75}

Scales == {-128, -55, -1, 7, 9, 26, 27, 36, 37, 56, 57, 72, 75, 76, 127} \cup (0..MaxStep)

Receivers ==
    {Decimal(FieldFromText(<<"1", "0", "0">>), 19, 4),
     Decimal(FieldFromText(<<"-", "1", "3", "4">>), 19, 4),
     Decimal(FieldFromText(<<"-", "1", "3", "4">>), 3, 0),
     Decimal(ONE, 1, 127),
     Decimal(ONE, 2, -1),
     Decimal(MAX_SIGNED, 75, 0)}
    \cup {Decimal(FieldFromText(<<"1", "2">>), 2, s) : s \in 0..MaxStep}

NewPrecisions == {1, 2, 3, 18, 19, 21, 25, 75}

NewScales == {-128, -55, -1, 7, 9, 72, 127} \cup (0..MaxStep)

InitDecimal ==
    /\ overflow_checks \in BOOLEAN
    /\ batch = NoBatch
    /\ pc = "ready"
    /\ lit = NoLit
    /\ target = 0
    /\ ret = NoRet
    /\ dec \in Receivers
    /\ arg = NoArg

WithPrecisionAndScale ==
    /\ pc = "ready"
    /\ \E np \in NewPrecisions, ns \in NewScales :
        /\ arg' = [op |-> "with_precision_and_scale", new_precision |-> np, new_scale |-> ns,
                   from |-> IF arg.op = "continued" THEN arg.from ELSE dec]
        /\ ret' = with_precision_and_scale(dec, np, ns, overflow_checks)
    /\ pc' = "with_precision_and_scale"
    /\ UNCHANGED <<batch, overflow_checks, lit, target, dec>>

\* the caller goes on with the Decimal a successful widening returned,
\* and remembers the Decimal the chain of calls started from
Continue ==
    /\ pc = "with_precision_and_scale"
    /\ ret.tag = "Ok"
    /\ dec' = ret.value
    /\ pc' = "ready"
    /\ ret' = NoRet
    /\ arg' = [op |-> "continued", from |-> arg.from]
    /\ UNCHANGED <<batch, overflow_checks, lit, target>>

NextDecimal == WithPrecisionAndScale \/ Continue

SpecDecimal == InitDecimal /\ [][NextDecimal]_vars

\* from_i64 and from_i128: the arguments are drawn first, then the call is made
InitFromInt ==
    /\ overflow_checks \in BOOLEAN
    /\ batch = NoBatch
    /\ pc = "ready"
    /\ lit = NoLit
    /\ target = 0
    /\ ret = NoRet
    /\ dec = NoDec
    /\ arg \in [value : I64Values \cup I128Values, precision : Precisions, scale : Scales]

FromI64 ==
    /\ pc = "ready"
    /\ arg.value \in I64Values
    /\ ret' = from_i64(arg.value, arg.precision, arg.scale)
    /\ pc' = "from_i64"
    /\ UNCHANGED <<batch, overflow_checks, lit, target, dec, arg>>

FromI128 ==
    /\ pc = "ready"
    /\ arg.value \in I128Values
    /\ ret' = from_i128(arg.value, arg.precision, arg.scale)
    /\ pc' = "from_i128"
    /\ UNCHANGED <<batch, overflow_checks, lit, target, dec, arg>>

NextFromInt == FromI64 \/ FromI128

SpecFromInt == InitFromInt /\ [][NextFromInt]_vars

\* scale_scalar on its own
InitScale ==
    /\ overflow_checks \in BOOLEAN
    /\ batch = NoBatch
    /\ pc = "ready"
    /\ lit = NoLit
    /\ target = 0
    /\ ret = NoRet
    /\ dec = NoDec
    /\ arg \in [s : Scalars, scale : Scales]

ScaleScalar ==
    /\ pc = "ready"
    /\ ret' = scale_scalar(arg.s, arg.scale)
    /\ pc' = "scale_scalar"
    /\ UNCHANGED <<batch, overflow_checks, lit, target, dec, arg>>

\* second scale arguments
AgainScales == {-1, 0, 1, 57, 71, 127}

\* the caller scales the element a first call returned once more
ScaleScalarAgain ==
    /\ pc = "scale_scalar"
    /\ ret.tag = "Ok"
    /\ \E b \in AgainScales :
        /\ arg' = [s |-> arg.s, scale |-> arg.scale, again |-> b]
        /\ ret' = scale_scalar(ret.value, b)
    /\ pc' = "scale_scalar_again"
    /\ UNCHANGED <<batch, overflow_checks, lit, target, dec>>

NextScale == ScaleScalar \/ ScaleScalarAgain

SpecScale == InitScale /\ [][NextScale]_vars

\* decimal_string_to_scaled_limbs on its own, as the tests call it

\* 2^256 - 1, the largest magnitude four limbs hold
U256_MAX == <<"1", "1", "5", "7", "9", "2", "0", "8", "9", "2", "3", "7", "3",
            "1", "6", "1", "9", "5", "4", "2", "3", "5", "7", "0", "9", "8",
            "5", "0", "0", "8", "6", "8", "7", "9", "0", "7", "8", "5", "3",
            "2", "6", "9", "9", "8", "4", "6", "6", "5", "6", "4", "0", "5",
            "6", "4", "0", "3", "9", "4", "5", "7", "5", "8", "4", "0", "0",
            "7", "9", "1", "3", "1", "2", "9", "6", "3", "9", "9", "3", "5">>

\* 2^256 + 5
U256_OVER == <<"1", "1", "5", "7", "9", "2", "0", "8", "9", "2", "3", "7", "3",
             "1", "6", "1", "9", "5", "4", "2", "3", "5", "7", "0", "9", "8",
             "5", "0", "0", "8", "6", "8", "7", "9", "0", "7", "8", "5", "3",
             "2", "6", "9", "9", "8", "4", "6", "6", "5", "6", "4", "0", "5",
             "6", "4", "0", "3", "9", "4", "5", "7", "5", "8", "4", "0", "0",
             "7", "9", "1", "3", "1", "2", "9", "6", "3", "9", "9", "4", "1">>

\* the field order p, p - 1 and (p - 1) / 2 in decimal
ORDER_TEXT == <<"7", "2", "3", "7", "0", "0", "5", "5", "7", "7", "3", "3", "2",
              "2", "6", "2", "2", "1", "3", "9", "7", "3", "1", "8", "6", "5",
              "6", "3", "0", "4", "2", "9", "9", "4", "2", "4", "0", "8", "5",
              "7", "1", "1", "6", "3", "5", "9", "3", "7", "9", "9", "0", "7",
              "6", "0", "6", "0", "0", "1", "9", "5", "0", "9", "3", "8", "2",
              "8", "5", "4", "5", "4", "2", "5", "0", "9", "8", "9">>

ORDER_LESS_ONE_TEXT == <<"7", "2", "3", "7", "0", "0", "5", "5", "7", "7", "3", "3", "2",
                       "2", "6", "2", "2", "1", "3", "9", "7", "3", "1", "8", "6", "5",
                       "6", "3", "0", "4", "2", "9", "9", "4", "2", "4", "0", "8", "5",
                       "7", "1", "1", "6", "3", "5", "9", "3", "7", "9", "9", "0", "7",
                       "6", "0", "6", "0", "0", "1", "9", "5", "0", "9", "3", "8", "2",
                       "8", "5", "4", "5", "4", "2", "5", "0", "9", "8", "8">>

MAX_SIGNED_TEXT == <<"3", "6", "1", "8", "5", "0", "2", "7", "8", "8", "6", "6", "6",
                   "1", "3", "1", "1", "0", "6", "9", "8", "6", "5", "9", "3", "2",
                   "8", "1", "5", "2", "1", "4", "9", "7", "1", "2", "0", "4", "2",
                   "8", "5", "5", "8", "1", "7", "9", "6", "8", "9", "9", "5", "3",
                   "8", "0", "3", "0", "0", "0", "9", "7", "5", "4", "6", "9", "1",
                   "4", "2", "7", "2", "7", "1", "2", "5", "4", "9", "4">>

\* the literal whose digits are text, with the point after the first k digits
PointAfter(text, k) ==
    DecimalUnknownNew(FALSE, SubSeq(text, 1, k), SubSeq(text, k + 1, Len(text)))

\* lengths of the runs of nines longer than any supported literal
LongRuns == {76, 77, 100, 254, 255, 256, 300}

LimbLiterals ==
    Literals
    \cup {DecimalUnknownNew(neg, <<"1", "2", "3", "4", "5">>, <<>>) : neg \in BOOLEAN}
    \cup {DecimalUnknownNew(FALSE, <<"1", "2", "3">>, <<"4", "5", "6">>)}
    \cup {PointAfter(U256_MAX, k) : k \in {1, 38, 78}}
    \cup {PointAfter(U256_OVER, k) : k \in {38, 78}}
    \cup {Negated(PointAfter(text, 78)) : text \in {U256_MAX, U256_OVER}}
    \cup {DecimalUnknownNew(FALSE, text, <<>>) :
             text \in {ORDER_TEXT, ORDER_LESS_ONE_TEXT, MAX_SIGNED_TEXT}}
    \cup {DecimalUnknownNew(neg, Rep("9", n), <<>>) : neg \in BOOLEAN, n \in LongRuns}

\* the scale argument: None, or Some of a supported (non-negative) scale
ScaleOptions == {None} \cup {Some(t) : t \in {t \in Targets : t >= 0}}

InitLimbs ==
    /\ overflow_checks \in BOOLEAN
    /\ batch = NoBatch
    /\ pc = "ready"
    /\ lit \in LimbLiterals
    /\ target = 0
    /\ ret = NoRet
    /\ dec = NoDec
    /\ arg \in [scale : ScaleOptions]

DecimalStringToScaledLimbs ==
    /\ pc = "ready"
    /\ ret' = decimal_string_to_scaled_limbs(lit, arg.scale)
    /\ pc' = "decimal_string_to_scaled_limbs"
    /\ UNCHANGED <<batch, overflow_checks, lit, target, dec, arg>>

\* S::from(limbs) of the limbs the decoder returned
ScalarFromLimbs ==
    /\ pc = "decimal_string_to_scaled_limbs"
    /\ ret.tag = "Ok"
    /\ ret' = [tag |-> "Ok", value |-> FieldFromLimbs(ret.limbs),
               limbs |-> ret.limbs, sign |-> ret.sign]
    /\ pc' = "scalar_from_limbs"
    /\ UNCHANGED <<batch, overflow_checks, lit, target, dec, arg>>

NextLimbs == DecimalStringToScaledLimbs \/ ScalarFromLimbs

SpecLimbs == InitLimbs /\ [][NextLimbs]_vars

\* Precision::new and deserialization of a Precision, for every byte and a
\* few integers on the wire that are no bytes
WireValues == U8 \cup {-1, 256, 65535}

InitPrecision ==
    /\ overflow_checks \in BOOLEAN
    /\ batch = NoBatch
    /\ pc = "ready"
    /\ lit = NoLit
    /\ target = 0
    /\ ret = NoRet
    /\ dec = NoDec
    /\ arg \in [value : WireValues]

New ==
    /\ pc = "ready"
    /\ arg.value \in U8
    /\ ret' = PrecisionNew(arg.value)
    /\ pc' = "new"
    /\ UNCHANGED <<batch, overflow_checks, lit, target, dec, arg>>

Deserialize ==
    /\ pc = "ready"
    /\ ret' = deserialize(arg.value)
    /\ pc' = "deserialize"
    /\ UNCHANGED <<batch, overflow_checks, lit, target, dec, arg>>

NextPrecision == New \/ Deserialize

SpecPrecision == InitPrecision /\ [][NextPrecision]_vars

----------------------------------------------------------------------------
(* A batch of rows processed by several workers                            *)

\* One row is one call of a fallible entry point: x is the literal, the
\* scalar, the receiver or the integer, precision and scale the remaining
\* arguments (precision 0 where the entry point takes none).
Row(op, x, precision, scale) == [op |-> op, x |-> x, precision |-> precision, scale |-> scale]

RowPool ==
    <<Row("match_decimal", DecimalUnknownNew(FALSE, <<"1", "2", "3">>, <<"4", "5">>), 0, 3),
     Row("match_decimal", DecimalUnknownNew(TRUE, <<"1", "2", "3">>, <<"4", "5">>), 0, 2),
     Row("match_decimal", DecimalUnknownNew(FALSE, <<"1", "2", "3">>, <<"0", "0", "0", "4">>), 0, 1),
     Row("match_decimal", DecimalUnknownNew(FALSE, Rep("9", 76), <<>>), 0, 1),
     Row("scale_scalar", FieldFromText(<<"-", "1", "3", "4">>), 0, 5),
     Row("scale_scalar", ONE, 0, -1),
     Row("with_precision_and_scale", Decimal(FieldFromText(<<"1", "0", "0">>), 19, 4), 18, 3),
     Row("with_precision_and_scale", Decimal(FieldFromText(<<"-", "1", "3", "4">>), 19, 4), 25, 9),
     Row("from_i64", <<"-", "9", "1">>, 21, 2),
     Row("from_i64", <<"1", "2">>, 18, 0),
     Row("from_i128", <<"1", "2">>, 43, 4),
     Row("from_i128", I128_MIN, 39, 1)>>

\* the call of a row, made alone
RunAlone(row, chk) ==
    CASE row.op = "match_decimal" -> match_decimal(row.x, row.scale, chk)
      [] row.op = "scale_scalar" -> scale_scalar(row.x, row.scale)
      [] row.op = "with_precision_and_scale" ->
            with_precision_and_scale(row.x, row.precision, row.scale, chk)
      [] row.op = "from_i64" -> from_i64(row.x, row.precision, row.scale)
      [] row.op = "from_i128" -> from_i128(row.x, row.precision, row.scale)

Local(v) == [tag |-> "Local", v |-> v]

\* The first half of a call: the checks, up to the value the function holds
\* in a local variable before it builds the result (limbs and sign; the
\* scalar about to be multiplied together with the number of
\* multiplications); an early return is the result itself.
RowBegin(row, chk) ==
    CASE row.op = "match_decimal" ->
            LET r == get_limbs_and_sign(row.x, row.scale, chk)
            IN  IF r.tag # "Ok" THEN r ELSE Local(r)
      [] row.op = "scale_scalar" ->
            IF row.scale < 0 THEN Err("DecimalRoundingError")
            ELSE Local([res |-> row.x, times |-> row.scale])
      [] row.op = "with_precision_and_scale" ->
            LET exact == row.scale - row.x.scale
                scale_factor == WrapI8(exact)
            IN  IF exact \notin I8 /\ chk THEN Panic
                ELSE IF scale_factor < 0
                        \/ row.precision < row.x.precision + AsU8(scale_factor)
                THEN Err("DecimalRoundingError")
                ELSE Local([res |-> row.x.value, times |-> scale_factor])
      [] row.op \in {"from_i64", "from_i128"} ->
            LET MINIMAL_PRECISION == IF row.op = "from_i64" THEN 19 ELSE 39
            IN  IF row.precision < MINIMAL_PRECISION THEN Err("DecimalRoundingError")
                ELSE IF row.scale < 0 \/ row.precision < MINIMAL_PRECISION + AsU8(row.scale)
                THEN Err("DecimalRoundingError")
                ELSE Local([res |-> FieldFromText(row.x), times |-> row.scale])

\* The second half: the result built from the local value
RowFinish(row, local) ==
    CASE row.op = "match_decimal" ->
            LET scalar == FieldFromLimbs(local.v.limbs)
            IN  Ok(IF local.v.sign = "Minus" THEN FieldNeg(scalar) ELSE scalar)
      [] row.op = "scale_scalar" -> Ok(MulTenTimes(local.v.res, local.v.times))
      [] OTHER ->
            LET scaled_value == scale_scalar(local.v.res, local.v.times)
            IN  IF scaled_value.tag # "Ok" THEN scaled_value
                ELSE Ok(Decimal(scaled_value.value, row.precision, row.scale))

Workers == {1, 2}

\* mutant: every worker keeps its local value in the same place
LocalOf_Shared(w) == 1

\* where the local variables of worker w live: on its own stack
LocalOf(w) == w

InitBatch ==
    /\ overflow_checks \in BOOLEAN
    /\ pc = "ready"
    /\ lit = NoLit
    /\ target = 0
    /\ ret = NoRet
    /\ dec = NoDec
    /\ arg = NoArg
    /\ \E a \in DOMAIN RowPool, b \in DOMAIN RowPool :
         LET rows == <<RowPool[a], RowPool[b]>>
         IN
         batch = [rows    |-> rows,
                  owner   |-> [r \in 1..Len(rows) |-> 0],
                  at      |-> [w \in Workers |-> 0],
                  local   |-> [w \in Workers |-> NoRet],
                  results |-> [r \in 1..Len(rows) |-> NoRet],
                  first   |-> [r \in 1..Len(rows) |-> NoRet]]

\* an idle worker takes any row nobody has taken and runs the call up to
\* its local value, or to its early return
BeginRow(w, r) ==
    /\ batch.at[w] = 0
    /\ batch.owner[r] = 0
    /\ batch.results[r] = NoRet
    /\ LET b == RowBegin(batch.rows[r], overflow_checks)
       IN  IF b.tag = "Local"
           THEN batch' = [batch EXCEPT !.owner[r] = w, !.at[w] = r,
                                       !.local[LocalOf(w)] = b]
           ELSE batch' = [batch EXCEPT !.results[r] = b]
    /\ UNCHANGED <<overflow_checks, pc, lit, target, ret, dec, arg>>

\* the worker completes the call it is in
FinishRow(w) ==
    /\ batch.at[w] # 0
    /\ LET r == batch.at[w]
       IN  batch' = [batch EXCEPT !.results[r] = RowFinish(batch.rows[r], batch.local[LocalOf(w)]),
                                   !.owner[r] = 0, !.at[w] = 0]
    /\ UNCHANGED <<overflow_checks, pc, lit, target, ret, dec, arg>>

\* the caller hands a failed row out once more, with the same arguments
Retry(r) ==
    /\ batch.results[r] # NoRet
    /\ batch.results[r].tag = "Err"
    /\ batch.first[r] = NoRet
    /\ batch' = [batch EXCEPT !.first[r] = batch.results[r], !.results[r] = NoRet]
    /\ UNCHANGED <<overflow_checks, pc, lit, target, ret, dec, arg>>

NextBatch ==
    \/ \E w \in Workers, r \in 1..Len(batch.rows) : BeginRow(w, r)
    \/ \E w \in Workers : FinishRow(w)
    \/ \E r \in 1..Len(batch.rows) : Retry(r)

SpecBatch == InitBatch /\ [][NextBatch]_vars

----------------------------------------------------------------------------
(* OwnedColumn: compare_indexes_by_owned_columns_with_direction            *)

\* core::cmp::Ordering of two integers
IntCmp(a, b) == IF a < b THEN "Less" ELSE IF a > b THEN "Greater" ELSE "Equal"

\* bool::cmp: false < true
BoolCmp(a, b) == IntCmp(IF a THEN 1 ELSE 0, IF b THEN 1 ELSE 0)

RECURSIVE StrCmp(_, _)
\* String::cmp: byte by byte, a proper prefix is smaller
StrCmp(a, b) ==
    IF a = <<>> THEN (IF b = <<>> THEN "Equal" ELSE "Less")
    ELSE IF b = <<>> THEN "Greater"
    ELSE IF Head(a) # Head(b) THEN IntCmp(Head(a), Head(b))
    ELSE StrCmp(Tail(a), Tail(b))

\* S::cmp: the order of the signed integers the elements stand for
\* (elements above MAX_SIGNED are the negative ones)
ScalarCmp(a, b) ==
    LET nega == ~Geq(MAX_SIGNED, a)
        negb == ~Geq(MAX_SIGNED, b)
    IN  IF a = b THEN "Equal"
        ELSE IF nega # negb THEN (IF nega THEN "Less" ELSE "Greater")
        ELSE IF Geq(a, b) THEN "Greater" ELSE "Less"

\* Ordering::reverse
Reverse(ord) == IF ord = "Less" THEN "Greater" ELSE IF ord = "Greater" THEN "Less" ELSE ord

\* An OwnedColumn is its variant and its Vec; Decimal75 also carries its
\* Precision and scale, TimestampTZ its unit and zone, which the
\* comparison ignores.
OwnedColumn(kind, data) == [kind |-> kind, data |-> data]

\* `col[i].cmp(&col[j])` for the variant of the column; the arguments are
\* positions counted from 1
EntryCmp(col, i, j) ==
    CASE col.kind = "Boolean" -> BoolCmp(col.data[i], col.data[j])
      [] col.kind \in {"TinyInt", "SmallInt", "Int", "BigInt", "TimestampTZ", "Int128"} ->
            IntCmp(col.data[i], col.data[j])
      [] col.kind \in {"Decimal75", "Scalar"} -> ScalarCmp(col.data[i], col.data[j])
      [] col.kind = "VarChar" -> StrCmp(col.data[i], col.data[j])

\* mutant: the direction is not applied
DirectedCmp_Ascending(pair, i, j) == EntryCmp(pair[1], i, j)

\* the closure of the map: the ordering of one pair, its direction applied
DirectedCmp(pair, i, j) ==
    LET ordering == EntryCmp(pair[1], i, j)
    IN  IF pair[2] = "Asc" THEN ordering ELSE Reverse(ordering)

RECURSIVE FindFrom(_, _, _, _)
\* `.map(..).find(|&ord| ord != Equal).unwrap_or(Equal)` from pair k on: the
\* iterator is lazy, a pair after the first that differs is never indexed;
\* indexing a Vec beyond its length panics
FindFrom(order_by_pairs, i, j, k) ==
    IF k > Len(order_by_pairs) THEN "Equal"
    ELSE IF i >= Len(order_by_pairs[k][1].data) \/ j >= Len(order_by_pairs[k][1].data)
         THEN "Panic"
    ELSE LET ord == DirectedCmp(order_by_pairs[k], i + 1, j + 1)
         IN  IF ord # "Equal" THEN ord ELSE FindFrom(order_by_pairs, i, j, k + 1)

compare_indexes_by_owned_columns_with_direction(order_by_pairs, i, j) ==
    FindFrom(order_by_pairs, i, j, 1)

\* the columns the comparison is driven with: those of we_can_compare_columns
\* first, then a Boolean column, a Scalar column with negative elements, a
\* VarChar column with prefixes, and a column of three rows only
ColumnPool ==
    <<OwnedColumn("SmallInt", <<1, 1, 2, 1, 1>>),
      OwnedColumn("VarChar", <<<<98>>, <<98>>, <<97>>, <<98>>, <<97>>>>),
      OwnedColumn("Decimal75", <<ONE, Fit(<<2>>, FieldWords), Fit(<<2>>, FieldWords),
                                 ONE, Fit(<<2>>, FieldWords)>>),
      OwnedColumn("Boolean", <<FALSE, TRUE, TRUE, FALSE, FALSE>>),
      OwnedColumn("Scalar", <<ONE, FieldNeg(ONE), ZERO, MAX_SIGNED, FieldNeg(ONE)>>),
      OwnedColumn("VarChar", <<<<>>, <<97>>, <<97, 98>>, <<97>>, <<98>>>>),
      OwnedColumn("TimestampTZ", <<-5, 3, -5>>)>>

\* longest list of order-by pairs that is enumerated in full
MaxPairs == 2

\* a pair is a column of the pool and a direction
PairChoices == (DOMAIN ColumnPool) \X {"Asc", "Desc"}

PairLists ==
    UNION {[1..n -> PairChoices] : n \in 0..MaxPairs}
    \cup {<<<<1, "Asc">>, <<2, "Desc">>, <<3, "Asc">>>>}

\* the rows of the pool's columns, counted from 0
RowIndexes == 0..4

InitCompare ==
    /\ overflow_checks \in BOOLEAN
    /\ batch = NoBatch
    /\ pc = "ready"
    /\ lit = NoLit
    /\ target = 0
    /\ ret = NoRet
    /\ dec = NoDec
    /\ arg \in [pairs : PairLists, i : RowIndexes, j : RowIndexes]

\* the order-by pairs the chosen list stands for
OrderByPairs(list) == [k \in 1..Len(list) |-> <<ColumnPool[list[k][1]], list[k][2]>>]

CompareIndexes ==
    /\ pc = "ready"
    /\ LET ord == compare_indexes_by_owned_columns_with_direction(
                      OrderByPairs(arg.pairs), arg.i, arg.j)
       IN  ret' = IF ord = "Panic" THEN Panic ELSE Ok(ord)
    /\ pc' = "compare_indexes"
    /\ UNCHANGED <<batch, overflow_checks, lit, target, dec, arg>>

NextCompare == CompareIndexes

SpecCompare == InitCompare /\ [][NextCompare]_vars

----------------------------------------------------------------------------
(* OwnedColumn::try_from_scalars and try_from_option_scalars               *)

\* 2^n as an unsigned number of FieldWords words
Pow2(n) == [i \in 1..FieldWords |-> IF i = n \div 16 + 1 THEN 2^(n % 16) ELSE 0]

\* TryInto::<bool>::try_into(s): only ZERO and ONE are booleans
TryIntoBool(s) ==
    IF s = ZERO THEN Ok(FALSE) ELSE IF s = ONE THEN Ok(TRUE) ELSE Err("ScalarConversionError")

\* TryInto::<iN>::try_into(s) for N = bits: the signed integer the element
\* stands for, when it lies in -2^(N-1) .. 2^(N-1) - 1; the integer is
\* written as its sign and magnitude
TryIntoInt(s, bits) ==
    LET neg == ~Geq(MAX_SIGNED, s)
        mag == IF neg THEN Sub(FieldOrder, s) ELSE s
        max == Pow2(bits - 1)
    IN  IF (~Geq(mag, max)) \/ (neg /\ mag = max)
        THEN Ok([neg |-> neg, mag |-> Trim(mag)])
        ELSE Err("ScalarConversionError")

RECURSIVE Collect(_, _)
\* `.collect::<Result<Vec<_>, _>>()` of the results from position k on:
\* the values in order, or the first error
Collect(results, k) ==
    IF k > Len(results) THEN Ok(<<>>)
    ELSE IF results[k].tag # "Ok" THEN results[k]
    ELSE LET rest == Collect(results, k + 1)
         IN  IF rest.tag # "Ok" THEN rest ELSE Ok(<<results[k].value>> \o rest.value)

\* ColumnType: the variant, its nullability and, for Decimal75, precision
\* and scale (0 for the other variants)
ColumnType(kind, meta, precision, scale) ==
    [kind |-> kind, meta |-> meta, precision |-> precision, scale |-> scale]

\* the OwnedColumn variant of a column type with its Vec
ColumnOf(column_type, data) ==
    [kind |-> column_type.kind, meta |-> column_type.meta,
     precision |-> column_type.precision, scale |-> column_type.scale, data |-> data]

\* width of the element type of the integer variants
IntBits(kind) ==
    CASE kind = "TinyInt" -> 8
      [] kind = "SmallInt" -> 16
      [] kind = "Int" -> 32
      [] kind \in {"BigInt", "TimestampTZ"} -> 64
      [] kind = "Int128" -> 128

\* mutant: the elements that do not fit are left out
try_from_scalars_Partial(scalars, column_type) ==
    IF column_type.kind \in {"VarChar", "Scalar", "Decimal75"}
    THEN (IF column_type.kind = "VarChar" THEN Err("TypeCastError")
          ELSE Ok(ColumnOf(column_type, scalars)))
    ELSE LET conv == [k \in 1..Len(scalars) |->
                         IF column_type.kind = "Boolean" THEN TryIntoBool(scalars[k])
                         ELSE TryIntoInt(scalars[k], IntBits(column_type.kind))]
         IN  Ok(ColumnOf(column_type,
                         Collect(SelectSeq(conv, LAMBDA r : r.tag = "Ok"), 1).value))

try_from_scalars(scalars, column_type) ==
    CASE column_type.kind = "VarChar" -> Err("TypeCastError")
      [] column_type.kind \in {"Scalar", "Decimal75"} -> Ok(ColumnOf(column_type, scalars))
      [] OTHER ->
            LET conv == [k \in 1..Len(scalars) |->
                            IF column_type.kind = "Boolean" THEN TryIntoBool(scalars[k])
                            ELSE TryIntoInt(scalars[k], IntBits(column_type.kind))]
                vec  == Collect(conv, 1)
            IN  IF vec.tag # "Ok" THEN Err("ScalarConversionError")
                ELSE Ok(ColumnOf(column_type, vec.value))

\* Option<S>: None is the empty tuple, Some(s) the one-element tuple
IsNone(o) == o = <<>>

\* mutant: the column type is looked at before the elements
try_from_option_scalars_TypeFirst(option_scalars, column_type) ==
    IF column_type.kind = "VarChar" THEN Err("TypeCastError")
    ELSE IF \E k \in 1..Len(option_scalars) : IsNone(option_scalars[k])
    THEN Err("Unsupported")
    ELSE try_from_scalars([k \in 1..Len(option_scalars) |-> option_scalars[k][1]], column_type)

try_from_option_scalars(option_scalars, column_type) ==
    IF \E k \in 1..Len(option_scalars) : IsNone(option_scalars[k])
    THEN Err("Unsupported")
    ELSE LET scalars == [k \in 1..Len(option_scalars) |-> option_scalars[k][1]]
         IN  try_from_scalars(scalars, column_type)

\* the optional elements the conversions are driven with: None, the
\* elements of the conversion tests (0, 1, -1, i128::MAX), and values just
\* inside and outside the integer types
OptionPool ==
    <<<<>>,
      <<ZERO>>,
      <<ONE>>,
      <<FieldNeg(ONE)>>,
      <<Fit(<<128>>, FieldWords)>>,
      <<FieldNeg(Fit(<<128>>, FieldWords))>>,
      <<Sub(Pow2(127), ONE)>>,
      <<Pow2(127)>>,
      <<FieldNeg(Pow2(127))>>,
      <<MAX_SIGNED>>>>

\* the column types that are requested; Decimal75 at the ends of its scale
ColumnTypePool ==
    <<ColumnType("Boolean", "NotNullable", 0, 0),
      ColumnType("TinyInt", "NotNullable", 0, 0),
      ColumnType("SmallInt", "Nullable", 0, 0),
      ColumnType("Int", "NotNullable", 0, 0),
      ColumnType("BigInt", "NotNullable", 0, 0),
      ColumnType("Int128", "NotNullable", 0, 0),
      ColumnType("TimestampTZ", "NotNullable", 0, 0),
      ColumnType("Scalar", "NotNullable", 0, 0),
      ColumnType("Decimal75", "NotNullable", 75, 127),
      ColumnType("Decimal75", "Nullable", 1, -128),
      ColumnType("VarChar", "NotNullable", 0, 0)>>

\* longest slice of elements that is converted
MaxScalars == 3

OptionLists == UNION {[1..n -> DOMAIN OptionPool] : n \in 0..MaxScalars}

\* the slice of optional elements a list of pool positions stands for
OptionScalars(list) == [k \in 1..Len(list) |-> OptionPool[list[k]]]

\* the slice of elements of a list without None
Unwrapped(list) == [k \in 1..Len(list) |-> OptionPool[list[k]][1]]

AllSome(list) == \A k \in 1..Len(list) : ~IsNone(OptionPool[list[k]])

InitColumn ==
    /\ overflow_checks \in BOOLEAN
    /\ batch = NoBatch
    /\ pc = "ready"
    /\ lit = NoLit
    /\ target = 0
    /\ ret = NoRet
    /\ dec = NoDec
    /\ arg \in [scalars : OptionLists, column_type : DOMAIN ColumnTypePool]

TryFromScalars ==
    /\ pc = "ready"
    /\ AllSome(arg.scalars)
    /\ ret' = try_from_scalars(Unwrapped(arg.scalars), ColumnTypePool[arg.column_type])
    /\ pc' = "try_from_scalars"
    /\ UNCHANGED <<batch, overflow_checks, lit, target, dec, arg>>

TryFromOptionScalars ==
    /\ pc = "ready"
    /\ ret' = try_from_option_scalars(OptionScalars(arg.scalars), ColumnTypePool[arg.column_type])
    /\ pc' = "try_from_option_scalars"
    /\ UNCHANGED <<batch, overflow_checks, lit, target, dec, arg>>

NextColumn == TryFromScalars \/ TryFromOptionScalars

SpecColumn == InitColumn /\ [][NextColumn]_vars

----------------------------------------------------------------------------
(* TryFrom<&ArrayRef> for OwnedColumn: arrays of type Decimal256           *)

\* convert_i256_to_scalar on an i256 given by sign and magnitude: None
\* outside the signed range of the field
convert_i256_to_scalar(v) ==
    IF ~Geq(MAX_SIGNED, v.mag) THEN None
    ELSE Some(IF v.neg THEN FieldNeg(v.mag) ELSE v.mag)

\* the match arm of DataType::Decimal256(precision, scale) and, when its
\* guard fails, the last arm
try_from_decimal256(precision, scale, values) ==
    IF precision <= 75
    THEN LET new  == PrecisionNew(precision)
             conv == [k \in 1..Len(values) |-> convert_i256_to_scalar(values[k])]
         IN  IF new.tag # "Ok" THEN Panic
             ELSE IF \E k \in 1..Len(conv) : ~conv[k].some THEN Panic
             ELSE Ok(ColumnOf(ColumnType("Decimal75", "NotNullable", new.value, scale),
                              [k \in 1..Len(conv) |-> conv[k].v]))
    ELSE Err("UnsupportedType")

\* the i256 values of the arrays: 0, 1, -1, the ends of the signed range of
\* the field and the first value beyond it
I256Pool ==
    <<[neg |-> FALSE, mag |-> ZERO],
      [neg |-> FALSE, mag |-> ONE],
      [neg |-> TRUE, mag |-> ONE],
      [neg |-> FALSE, mag |-> MAX_SIGNED],
      [neg |-> TRUE, mag |-> MAX_SIGNED],
      [neg |-> FALSE, mag |-> Fit(MulAdd(MAX_SIGNED, 1, 1), FieldWords)]>>

\* the arrays' contents, as positions of the pool
I256Lists == {<<>>} \cup {<<k>> : k \in DOMAIN I256Pool} \cup {<<2, 3>>, <<3, 6, 1>>}

I256Values(list) == [k \in 1..Len(list) |-> I256Pool[list[k]]]

InitArrow ==
    /\ overflow_checks \in BOOLEAN
    /\ batch = NoBatch
    /\ pc = "ready"
    /\ lit = NoLit
    /\ target = 0
    /\ ret = NoRet
    /\ dec = NoDec
    /\ arg \in [precision : U8, scale : {-128, -1, 0, 2, 127}, values : I256Lists]

TryFromArrayRef ==
    /\ pc = "ready"
    /\ ret' = try_from_decimal256(arg.precision, arg.scale, I256Values(arg.values))
    /\ pc' = "try_from"
    /\ UNCHANGED <<batch, overflow_checks, lit, target, dec, arg>>

NextArrow == TryFromArrayRef

SpecArrow == InitArrow /\ [][NextArrow]_vars

----------------------------------------------------------------------------
(* Reference arithmetic for the properties: exact integers, reduced once   *)

RECURSIVE ModBits(_, _, _, _)
\* (r * 2^(hi-lo+1) + bits hi..lo of the number x) mod FieldOrder;
\* bit b of x is bit b % 16 of word b \div 16 + 1
ModBits(x, hi, lo, r) ==
    IF hi < lo THEN r
    ELSE IF hi = lo
         THEN Reduce(MulAdd(r, 2, (x[hi \div 16 + 1] \div 2^(hi % 16)) % 2))
    ELSE LET mid == (lo + hi + 1) \div 2
             top == ModBits(x, hi, mid, r)
         IN  IF Len(top) >= 0 THEN ModBits(x, mid - 1, lo, top) ELSE top

\* x mod FieldOrder for an unsigned number of any size
Mod(x) == ModBits(x, 16 * Len(x) - 1, 0, ZERO)

RECURSIVE TimesPow10(_, _)
\* the exact integer x * 10^k
TimesPow10(x, k) ==
    IF k <= 0 THEN x
    ELSE IF k = 1 THEN MulAdd(x, 10, 0)
    ELSE LET first == TimesPow10(x, k \div 2)
         IN  IF Len(first) >= 0 THEN TimesPow10(first, k - k \div 2) ELSE first

\* the signed integer written by text, times 10^k, as a field element
TextTimesPow10(text, k) ==
    LET b == BigIntFromStr(text)
        m == Mod(TimesPow10(b.mag, k))
    IN  IF b.sign = "Minus" THEN FieldNeg(m) ELSE m

\* the same number written with k more fraction digits, all zero
WithTrailingZeros(d, k) ==
    [value |-> d.value \o Rep("0", k), precision |-> d.precision + k, scale |-> d.scale + k]

Matched == pc = "match_decimal"

Called == pc \in {"match_decimal", "get_limbs_and_sign"}

\* t >= s and p + (t - s) <= 75
SafelyWidenable(d, t) ==
    /\ d.scale >= 0
    /\ t >= d.scale
    /\ d.precision + (t - d.scale) <= MAX_SUPPORTED_PRECISION

----------------------------------------------------------------------------
(* Properties of the matcher                                               *)

\* C1: whenever the literal is safely widenable to the target (t >= s and
\* p + (t - s) <= 75), match_decimal returns Ok and the value is the signed
\* integer of the digit text times exactly 10^(t - s).
C1_WideningIsExact ==
    (Matched /\ SafelyWidenable(lit, target))
        => /\ ret.tag = "Ok"
           /\ ret.value = TextTimesPow10(lit.value, target - lit.scale)

\* C2 as stated: every target below the literal's scale gives DecimalRoundingError.
C2_ScaleDownIsRoundingError ==
    (Called /\ target < lit.scale) => ret = Err("DecimalRoundingError")

\* C2 amended: a target below the literal's scale is always rejected, with
\* DecimalRoundingError when the declared precision is at most 75 and with
\* PrecisionParseError (the first row of the table) when it is larger.
C2_ScaleDownIsRejected ==
    (Called /\ target < lit.scale)
        => ret = IF lit.precision > MAX_SUPPORTED_PRECISION
                 THEN Err("PrecisionParseError")
                 ELSE Err("DecimalRoundingError")

C2_Witness ==
    /\ Matched
    /\ target < lit.scale
    /\ lit.precision <= MAX_SUPPORTED_PRECISION
    /\ ret = Err("DecimalRoundingError")

\* C3: a declared precision above 75 gives PrecisionParseError for every
\* target scale, below, at or above the literal's scale.
C3_PrecisionCheckedFirst ==
    (Called /\ lit.precision > MAX_SUPPORTED_PRECISION) => ret = Err("PrecisionParseError")

C3_Witness ==
    /\ Matched
    /\ lit.precision > MAX_SUPPORTED_PRECISION
    /\ target < lit.scale
    /\ ret = Err("PrecisionParseError")

\* C4: for 1 <= p <= 75, 0 <= s < t <= 127 and p + (t - s) > 75 the call
\* returns Err(PrecisionParseError): no success, no abort.
C4_OverWideningIsTypedError ==
    (/\ Called
     /\ lit.precision \in 1..MAX_SUPPORTED_PRECISION
     /\ lit.scale >= 0 /\ lit.scale < target /\ target <= 127
     /\ lit.precision + (target - lit.scale) > MAX_SUPPORTED_PRECISION)
        => ret = Err("PrecisionParseError")

\* C5: when an unsigned text and its negation are both accepted at the
\* target, get_limbs_and_sign gives the same limbs with signs Plus and
\* Minus, and match_decimal of the negation is the field negation.
C5_SignPreservation ==
    LET other == IF Matched THEN match_decimal(Negated(lit), target, overflow_checks)
                 ELSE get_limbs_and_sign(Negated(lit), target, overflow_checks)
    IN  (Called /\ lit.value[1] # "-" /\ ret.tag = "Ok" /\ other.tag = "Ok")
            => IF Matched
               THEN other.value = FieldNeg(ret.value)
               ELSE other.limbs = ret.limbs /\ ret.sign = "Plus" /\ other.sign = "Minus"

----------------------------------------------------------------------------
(* Properties of Decimal<S> and scale_scalar                               *)

\* the field element s times 10^k, from the exact product
ScalarTimesPow10(s, k) == Mod(TimesPow10(Trim(s), k))

\* C7: with_precision_and_scale fails with DecimalRoundingError exactly when
\* new_scale < scale or new_precision < precision + (new_scale - scale), and
\* otherwise returns value * 10^(new_scale - scale) at the new precision and
\* scale.
C7_WithPrecisionAndScale ==
    pc = "with_precision_and_scale"
        => IF \/ arg.new_scale < dec.scale
              \/ arg.new_precision < dec.precision + (arg.new_scale - dec.scale)
           THEN ret = Err("DecimalRoundingError")
           ELSE ret = Ok(Decimal(ScalarTimesPow10(dec.value, arg.new_scale - dec.scale),
                                 arg.new_precision, arg.new_scale))

\* C8: from_i64 succeeds exactly when precision >= 19, scale >= 0 and
\* precision >= 19 + scale; the result then has the given precision and
\* scale and the value v * 10^scale in the field; every failure is
\* DecimalRoundingError.
C8_FromI64 ==
    pc = "from_i64"
        => IF arg.precision >= 19 /\ arg.scale >= 0 /\ arg.precision >= 19 + arg.scale
           THEN ret = Ok(Decimal(TextTimesPow10(arg.value, arg.scale),
                                 arg.precision, arg.scale))
           ELSE ret = Err("DecimalRoundingError")

C8_Witness ==
    /\ pc = "from_i64"
    /\ arg = [value |-> <<"-", "9", "1">>, precision |-> 21, scale |-> 2]
    /\ ret = Ok(Decimal(FieldFromText(<<"-", "9", "1", "0", "0">>), 21, 2))

\* C9: from_i128 succeeds exactly when precision >= 39, scale >= 0 and
\* precision >= 39 + scale; the result then has the given precision and
\* scale and the value v * 10^scale in the field; every failure is
\* DecimalRoundingError.
C9_FromI128 ==
    pc = "from_i128"
        => IF arg.precision >= 39 /\ arg.scale >= 0 /\ arg.precision >= 39 + arg.scale
           THEN ret = Ok(Decimal(TextTimesPow10(arg.value, arg.scale),
                                 arg.precision, arg.scale))
           ELSE ret = Err("DecimalRoundingError")

C9_Witness ==
    /\ pc = "from_i128"
    /\ arg = [value |-> <<"1", "2">>, precision |-> 43, scale |-> 4]
    /\ ret = Ok(Decimal(FieldFromText(<<"1", "2", "0", "0", "0", "0">>), 43, 4))

\* C10: scale_scalar returns DecimalRoundingError for every negative scale,
\* and for every scale k >= 0 returns Ok(s * 10^k) reduced in the field,
\* also when the exact product is larger than the field order; for k = 0 it
\* returns s.
C10_ScaleScalar ==
    pc = "scale_scalar"
        => /\ IF arg.scale < 0
              THEN ret = Err("DecimalRoundingError")
              ELSE ret = Ok(ScalarTimesPow10(arg.s, arg.scale))
           /\ arg.scale = 0 => ret = Ok(arg.s)

\* the exact product no longer fits the 256 bits of a field element
C10_Witness ==
    /\ pc = "scale_scalar"
    /\ arg.s = MAX_SIGNED
    /\ arg.scale = 127
    /\ ret.tag = "Ok"
    /\ Len(Trim(TimesPow10(Trim(arg.s), arg.scale))) > FieldWords

----------------------------------------------------------------------------
(* Properties of Precision                                                 *)

\* C11: Precision::new(v) succeeds if and only if 1 <= v <= 75, for every
\* byte v, and on success value() returns v.
C11_PrecisionNew ==
    pc = "new"
        => /\ ret.tag = "Ok" <=> arg.value \in 1..75
           /\ ret.tag = "Ok" => PrecisionValue(ret.value) = arg.value
           /\ arg.value \in {0, 76, 255} => ret.tag = "Err"

C11_Witness ==
    /\ pc = "new"
    /\ arg.value = 75
    /\ ret.tag = "Ok"
    /\ PrecisionValue(ret.value) = 75

\* C12: no Precision outside 1..=75 comes out of the constructor or of
\* deserialization, and deserializing a byte outside the range is rejected
\* with the error of the constructor.
C12_PrecisionAlwaysInRange ==
    /\ (pc \in {"new", "deserialize"} /\ ret.tag = "Ok")
            => PrecisionValue(ret.value) \in 1..MAX_SUPPORTED_PRECISION
    /\ (pc = "deserialize" /\ arg.value \in U8 \ (1..MAX_SUPPORTED_PRECISION))
            => ret = PrecisionNew(arg.value) /\ ret.tag = "Err"

C12_Witness ==
    /\ pc = "deserialize"
    /\ arg.value = 76
    /\ ret = [tag |-> "Err", msg |-> PrecisionMessage]

----------------------------------------------------------------------------
(* Properties of decimal_string_to_scaled_limbs                            *)

Decoded == pc = "decimal_string_to_scaled_limbs"

MaxOf(a, b) == IF a > b THEN a ELSE b

\* clamp(x, lo, hi), which is lo when hi < lo
Clamp(x, lo, hi) == MaxOf(lo, MinOf(x, hi))

\* the digit text followed by clamp(target - source scale, 0, 75 - len) zeros
PaddedText(d, scale) ==
    d.value \o Rep("0", IF scale.some
                        THEN Clamp(scale.v - d.scale, 0, 75 - Len(d.value))
                        ELSE 0)

\* one u64 limb holding a number below 2^32
Limb(n) == <<n % WordBase, n \div WordBase, 0, 0>>

\* C13: given Some(t) the decoder appends exactly
\* clamp(t - source scale, 0, 75 - len(text)) zeros and given None appends
\* nothing; the limbs are the magnitude and the sign is the sign of the
\* padded text read as an integer ("123.45" at 2 gives [12345,0,0,0] Plus,
\* at 3 gives [123450,0,0,0] Plus, "12345" at 2 gives [1234500,0,0,0]).
C13_PaddingIsClamped ==
    Decoded =>
        /\ Len(lit.value) <= 255 => ret.tag = "Ok"
        /\ ret.tag = "Ok" =>
              LET b == BigIntFromStr(PaddedText(lit, arg.scale))
              IN  ret.limbs = ToLimbs(b.mag) /\ ret.sign = b.sign
        /\ lit = DecimalUnknownNew(FALSE, <<"1", "2", "3">>, <<"4", "5">>) =>
              /\ arg.scale \in {None, Some(2)} =>
                    ret.limbs = <<Limb(12345), Limb(0), Limb(0), Limb(0)>> /\ ret.sign = "Plus"
              /\ arg.scale = Some(3) =>
                    ret.limbs = <<Limb(123450), Limb(0), Limb(0), Limb(0)>> /\ ret.sign = "Plus"
        /\ (lit = DecimalUnknownNew(FALSE, <<"1", "2", "3", "4", "5">>, <<>>)
             /\ arg.scale = Some(2)) =>
              ret.limbs = <<Limb(1234500), Limb(0), Limb(0), Limb(0)>>

\* the padding is cut by the 75 characters: 74 nines at target 30
C13_Witness ==
    /\ Decoded
    /\ lit = DecimalUnknownNew(FALSE, Rep("9", 74), <<>>)
    /\ arg.scale = Some(30)
    /\ ret.tag = "Ok"
    /\ ret.limbs = ToLimbs(BigIntFromStr(Rep("9", 74) \o <<"0">>).mag)
    /\ ret.sign = "Plus"

AllOnes == <<WordBase - 1, WordBase - 1, WordBase - 1, WordBase - 1>>

\* the four limbs of v mod 2^256 for the magnitude v: limb k is made of the
\* words 4k-3 .. 4k of v, zero where v has no such word
LowLimbs(mag) ==
    [k \in 1..4 |-> [j \in 1..4 |-> IF 4 * (k - 1) + j <= Len(mag)
                                     THEN mag[4 * (k - 1) + j] ELSE 0]]

\* C19: for every digit text the decoder returns, without error, the four
\* little-endian base-2^64 words of v mod 2^256, v being the magnitude of
\* the text read as an integer: exact and zero-filled below 2^256 (2^256 - 1
\* gives four all-ones limbs wherever the point stood), cut to the low four
\* words from 2^256 on.
C19_LimbsAreLowWords ==
    Decoded =>
        /\ ret.tag = "Ok"
        /\ ret.limbs = LowLimbs(BigIntFromStr(PaddedText(lit, arg.scale)).mag)
        /\ (arg.scale = None /\ lit \in {PointAfter(U256_MAX, k) : k \in {1, 38, 78}})
               => ret.limbs = <<AllOnes, AllOnes, AllOnes, AllOnes>>
        /\ (arg.scale = None /\ lit \in {PointAfter(U256_OVER, k) : k \in {38, 78}})
               => ret.limbs = <<Limb(5), Limb(0), Limb(0), Limb(0)>>

\* C20: for every text longer than 75 characters, of any length, and any
\* target the decoder appends nothing and returns the limbs and sign of the
\* text without aborting; a text of at most 75 characters is never padded
\* beyond 75 characters.
C20_LongTextIsNotPadded ==
    Decoded =>
        /\ Len(lit.value) > 75 =>
              LET b == BigIntFromStr(lit.value)
              IN  ret = [tag |-> "Ok", limbs |-> ToLimbs(b.mag), sign |-> b.sign]
        /\ Len(lit.value) <= 75 =>
              Len(lit.value) + ActualZerosToAppend(lit, arg.scale) <= 75

----------------------------------------------------------------------------
(* Relations between calls on Decimal<S> and scale_scalar                  *)

\* C14: scale_scalar(scale_scalar(x, a), b) equals scale_scalar(x, a + b)
\* for every field element x and all a, b >= 0 (a + b being an i8).
C14_ScaleScalarComposes ==
    (/\ pc = "scale_scalar_again"
     /\ arg.scale >= 0 /\ arg.again >= 0
     /\ arg.scale + arg.again \in I8)
        => ret = scale_scalar(arg.s, arg.scale + arg.again)

\* the two steps together go beyond the field order
C14_Witness ==
    /\ pc = "scale_scalar_again"
    /\ arg = [s |-> MAX_SIGNED, scale |-> 56, again |-> 57]
    /\ ret = scale_scalar(MAX_SIGNED, 113)
    /\ ret.tag = "Ok"

Widened == pc = "with_precision_and_scale"

\* C15: with_precision_and_scale(p, s) on a Decimal that already has
\* precision p and scale s succeeds and returns a Decimal equal to the
\* receiver.
C15_SamePrecisionAndScaleIsNoOp ==
    (Widened /\ arg.new_precision = dec.precision /\ arg.new_scale = dec.scale)
        => ret = Ok(dec)

C15_Witness ==
    /\ Widened
    /\ dec = Decimal(FieldFromText(<<"-", "1", "3", "4">>), 19, 4)
    /\ arg.new_precision = 19 /\ arg.new_scale = 4
    /\ ret = Ok(dec)

\* C16: every successful with_precision_and_scale returns a Decimal whose
\* scale is not below the receiver's and whose precision is at least the
\* receiver's precision plus the scale increase, so along a chain of
\* successful calls precision minus scale never decreases.
C16_WideningIsMonotonic ==
    (Widened /\ ret.tag = "Ok")
        => /\ ret.value.scale >= dec.scale
           /\ ret.value.precision >= dec.precision + (ret.value.scale - dec.scale)

\* C17: with_precision_and_scale never aborts: for every receiver, every
\* new precision and every new scale it returns Ok or
\* Err(DecimalRoundingError), and new_scale - self.scale and
\* precision + scale_factor stay inside their 8-bit types.
C17_WideningNeverAborts ==
    Widened
        => /\ ret.tag = "Ok" \/ ret = Err("DecimalRoundingError")
           /\ arg.new_scale - dec.scale \in I8
           /\ (arg.new_scale - dec.scale \in 0..127)
                 => dec.precision + (arg.new_scale - dec.scale) \in U8

----------------------------------------------------------------------------
(* Independence of the rows of a batch                                     *)

\* C18: the entry points are deterministic functions of their arguments
\* with no shared state: whatever the order and interleaving in which the
\* workers process a batch, the result of each row is the result of that
\* row processed alone, and a failed call made again with the same
\* arguments fails with the same error.
C18_RowsAreIndependent ==
    \A r \in 1..Len(batch.rows) :
        /\ batch.results[r] # NoRet
              => batch.results[r] = RunAlone(batch.rows[r], overflow_checks)
        /\ (batch.results[r] # NoRet /\ batch.first[r] # NoRet)
              => batch.results[r] = batch.first[r]

\* both workers are inside a call at once, and the first row has its result
C18_Witness ==
    /\ Len(batch.rows) = 2
    /\ batch.at[1] = 2
    /\ batch.at[2] = 0
    /\ batch.rows[1].op = "match_decimal"
    /\ batch.rows[2].op = "with_precision_and_scale"
    /\ batch.results[1].tag = "Ok"
    /\ batch.owner[2] = 1
    /\ batch.local[2] # NoRet

----------------------------------------------------------------------------
(* Properties of the conversion of limbs to a field element                *)

\* C21: the element built from decoded limbs is the 256-bit magnitude
\* reduced modulo the field order p: the text of (p - 1) / 2 gives
\* MAX_SIGNED, the text of p gives ZERO, the text of p - 1 gives ZERO - ONE
\* (adding ONE gives ZERO), and in general the magnitude m gives m mod p.
C21_LimbsAreReducedModuloOrder ==
    pc = "scalar_from_limbs" =>
        /\ ret.value = Mod(Trim(ret.limbs[1] \o ret.limbs[2] \o ret.limbs[3] \o ret.limbs[4]))
        /\ arg.scale = None =>
              /\ lit.value = MAX_SIGNED_TEXT => ret.value = MAX_SIGNED
              /\ lit.value = ORDER_TEXT => ret.value = ZERO
              /\ lit.value = ORDER_LESS_ONE_TEXT =>
                    /\ ret.value = FieldNeg(ONE)
                    /\ Reduce(MulAdd(ret.value, 1, 1)) = ZERO

\* a magnitude above the order: 2^256 - 1
C21_Witness ==
    /\ pc = "scalar_from_limbs"
    /\ lit = PointAfter(U256_MAX, 78)
    /\ arg.scale = None
    /\ ret.limbs = <<AllOnes, AllOnes, AllOnes, AllOnes>>
    /\ ret.value = Mod(Rep(WordBase - 1, 16))
    /\ ret.value # Rep(WordBase - 1, 16)

----------------------------------------------------------------------------
(* Further properties of the matcher                                       *)

\* C22: the no-padding return (rule 5, the decoder called with None) is
\* taken only when the literal's scale equals the target: for precision
\* <= 75 and 0 <= scale < target exactly one of rule 3 (widen) and rule 4
\* (PrecisionParseError) is taken.
C22_NoPaddingOnlyAtEqualScale ==
    Called =>
        /\ SelectedRule(lit, target) = 5 => lit.scale = target
        /\ (lit.precision <= MAX_SUPPORTED_PRECISION /\ 0 <= lit.scale /\ lit.scale < target)
              => SelectedRule(lit, target) \in {3, 4}
        /\ (pc = "get_limbs_and_sign" /\ ret.tag = "Ok") =>
              \/ /\ SelectedRule(lit, target) = 3
                 /\ ret = decimal_string_to_scaled_limbs(lit, Some(target))
              \/ /\ SelectedRule(lit, target) = 5
                 /\ ret = decimal_string_to_scaled_limbs(lit, None)
        /\ (ret.tag = "Err" /\ ret.kind = "PrecisionParseError")
              => SelectedRule(lit, target) \in {1, 4}

\* precision + target is 76 with nothing to spare: rule 4, not rule 5
C22_Witness ==
    /\ pc = "get_limbs_and_sign"
    /\ lit = DecimalUnknownNew(FALSE, <<"1">>, <<>>)
    /\ target = 75
    /\ SelectedRule(lit, target) = 4
    /\ ret = Err("PrecisionParseError")

\* C23: the two ways of widening agree: for a literal accepted at its own
\* scale and a target above it accepted by the widening rule, match_decimal
\* at the target (zeros appended to the text) equals scale_scalar applied
\* to match_decimal at the literal's own scale with the scale difference
\* (repeated multiplication by ten).
C23_PaddingAgreesWithScaling ==
    LET own == match_decimal(lit, lit.scale, overflow_checks)
    IN  (Matched /\ target > lit.scale /\ SelectedRule(lit, target) = 3 /\ own.tag = "Ok")
            => ret = scale_scalar(own.value, target - lit.scale)

----------------------------------------------------------------------------
(* The precision contract: |value| has at most precision digits            *)

\* x < y for unsigned numbers of at most n words
Less(x, y, n) == ~Geq(Fit(x, n), Fit(y, n))

\* the magnitude of the signed integer a field element stands for
SignedMagnitude(v) == IF Geq(MAX_SIGNED, v) THEN Trim(v) ELSE Trim(Sub(FieldOrder, v))

\* 10^n
Pow10(n) == TimesPow10(<<1>>, n)

\* |value| < 10^precision
WithinPrecision(d) == Less(SignedMagnitude(d.value), Pow10(d.precision), 2 * FieldWords)

\* C24: if the receiver's |value| has at most precision digits, the result
\* of a successful with_precision_and_scale, and so of any sequence of such
\* calls, has at most its own precision digits: its magnitude is the exact
\* product, below 10^75, and does not wrap the field.
C24_PrecisionContractIsPreserved ==
    (Widened /\ ret.tag = "Ok" /\ WithinPrecision(dec))
        => LET exact == TimesPow10(SignedMagnitude(dec.value),
                                   ret.value.scale - dec.scale)
           IN  /\ WithinPrecision(ret.value)
               /\ ret.value.scale - dec.scale \in 0..127 =>
                     /\ SignedMagnitude(ret.value.value) = Trim(exact)
                     /\ Less(exact, Pow10(MAX_SUPPORTED_PRECISION), 4 * FieldWords)

\* the second call of a chain: 12 to 120 to 12 * 10^72, 74 digits
C24_Witness ==
    /\ Widened
    /\ dec = Decimal(FieldFromText(<<"1", "2", "0">>), 3, 1)
    /\ arg.new_precision = 75 /\ arg.new_scale = 72
    /\ ret.tag = "Ok"
    /\ SignedMagnitude(ret.value.value) = Trim(TimesPow10(<<12>>, 72))

\* C25: a successful from_i64 or from_i128 is free of wrap-around: the
\* accepted scale is at most 56, resp. 36, |v * 10^scale| < 10^75 <=
\* MAX_SIGNED, the value is the exact integer v * 10^scale with the sign of
\* v, and it has no more digits than the declared precision.
C25_FromIntDoesNotWrap ==
    (pc \in {"from_i64", "from_i128"} /\ ret.tag = "Ok")
        => LET v     == BigIntFromStr(arg.value)
               exact == TimesPow10(v.mag, arg.scale)
           IN  /\ arg.scale >= 0
               /\ arg.scale <= IF pc = "from_i64" THEN 56 ELSE 36
               /\ Less(exact, Pow10(MAX_SUPPORTED_PRECISION), 2 * FieldWords)
               /\ Less(Pow10(MAX_SUPPORTED_PRECISION), MAX_SIGNED, FieldWords)
               /\ SignedMagnitude(ret.value.value) = Trim(exact)
               /\ ~Geq(MAX_SIGNED, ret.value.value) <=> v.sign = "Minus"
               /\ WithinPrecision(ret.value)

\* the smallest i128 at the largest accepted scale
C25_Witness ==
    /\ pc = "from_i128"
    /\ arg = [value |-> I128_MIN, precision |-> 75, scale |-> 36]
    /\ ret.tag = "Ok"
    /\ ~Geq(MAX_SIGNED, ret.value.value)
    /\ SignedMagnitude(ret.value.value) = Trim(TimesPow10(BigIntFromStr(I128_MIN).mag, 36))

\* C26: widening is path independent: when d.with_precision_and_scale(p1, s1)
\* succeeds and with_precision_and_scale(p2, s2) of its result succeeds,
\* d.with_precision_and_scale(p2, s2) succeeds too and returns an equal
\* Decimal.
C26_WideningIsPathIndependent ==
    (Widened /\ ret.tag = "Ok")
        => with_precision_and_scale(arg.from, arg.new_precision, arg.new_scale,
                                    overflow_checks) = ret

\* 12 at scale 0, then 120 at scale 1, then 12 * 10^72 at scale 72
C26_Witness ==
    /\ Widened
    /\ arg.from = Decimal(FieldFromText(<<"1", "2">>), 2, 0)
    /\ dec = Decimal(FieldFromText(<<"1", "2", "0">>), 3, 1)
    /\ arg.new_precision = 75 /\ arg.new_scale = 72
    /\ ret.tag = "Ok"
    /\ ret.value.scale = 72

----------------------------------------------------------------------------
(* Properties of the OwnedColumn layer                                     *)

\* the rows i and j exist in the column of pair k
RowsExist(list, k, i, j) ==
    /\ i < Len(ColumnPool[list[k][1]].data)
    /\ j < Len(ColumnPool[list[k][1]].data)

\* the positions of the pairs in whose column the entries i and j differ
Differing(list, i, j) ==
    {k \in 1..Len(list) :
        RowsExist(list, k, i, j)
        /\ ColumnPool[list[k][1]].data[i + 1] # ColumnPool[list[k][1]].data[j + 1]}

\* C27: compare_indexes_by_owned_columns_with_direction returns the
\* ordering of the entries i and j in the first column of the list in
\* which they differ, reversed when that column's direction is Desc, and
\* Equal when they differ in no column (and for the empty list);
\* Decimal75 columns are compared by their scalar entries.
C27_FirstDifferingColumnDecides ==
    (pc = "compare_indexes" /\ \A k \in 1..Len(arg.pairs) : RowsExist(arg.pairs, k, arg.i, arg.j))
        => LET diff == Differing(arg.pairs, arg.i, arg.j)
           IN  /\ diff = {} => ret.value = "Equal"
               /\ diff # {} =>
                     LET k   == CHOOSE k \in diff : \A m \in diff : k <= m
                         ord == EntryCmp(ColumnPool[arg.pairs[k][1]], arg.i + 1, arg.j + 1)
                     IN  /\ ord \in {"Less", "Greater"}
                         /\ ret.value = IF arg.pairs[k][2] = "Desc" THEN Reverse(ord) ELSE ord
               /\ arg.pairs = <<<<1, "Asc">>, <<2, "Desc">>, <<3, "Asc">>>> =>
                     /\ (arg.i = 0 /\ arg.j = 1) => ret.value = "Less"
                     /\ (arg.i = 0 /\ arg.j = 2) => ret.value = "Less"
                     /\ (arg.i = 0 /\ arg.j = 3) => ret.value = "Equal"
                     /\ (arg.i = 1 /\ arg.j = 4) => ret.value = "Less"
               /\ (arg.pairs = <<<<3, "Desc">>>> /\ arg.i = 0 /\ arg.j = 1) => ret.value = "Greater"

\* equal in the first column, decided by the second, which is descending
C27_Witness ==
    /\ pc = "compare_indexes"
    /\ arg = [pairs |-> <<<<1, "Asc">>, <<2, "Desc">>, <<3, "Asc">>>>, i |-> 1, j |-> 4]
    /\ ret.value = "Less"

\* the requested column type of the call
Requested == ColumnTypePool[arg.column_type]

\* the signed integer an element stands for is one of the type's values
Representable(s, kind) ==
    LET neg == ~Geq(MAX_SIGNED, s)
        mag == IF neg THEN Sub(FieldOrder, s) ELSE s
    IN  CASE kind = "Boolean" -> s \in {ZERO, ONE}
          [] kind \in {"Scalar", "Decimal75"} -> TRUE
          [] kind = "VarChar" -> FALSE
          [] OTHER -> IF neg THEN Geq(Pow2(IntBits(kind) - 1), mag)
                      ELSE Geq(Sub(Pow2(IntBits(kind) - 1), ONE), mag)

\* the element a value of the Ok column stands for
ElementBack(v, kind) ==
    CASE kind = "Boolean" -> IF v THEN ONE ELSE ZERO
      [] kind \in {"Scalar", "Decimal75"} -> v
      [] OTHER -> IF v.neg THEN FieldNeg(Fit(v.mag, FieldWords)) ELSE Fit(v.mag, FieldWords)

\* C28: try_from_option_scalars returns Err(Unsupported) whenever at least
\* one element is None, whatever the requested column type and the other
\* elements are; when every element is Some it returns what
\* try_from_scalars returns on the unwrapped elements.
C28_NoneIsUnsupportedFirst ==
    pc = "try_from_option_scalars" =>
        IF AllSome(arg.scalars)
        THEN ret = try_from_scalars(Unwrapped(arg.scalars), Requested)
        ELSE ret = Err("Unsupported")

\* a None next to an element that is out of range, requested as VarChar
C28_Witness ==
    /\ pc = "try_from_option_scalars"
    /\ arg.scalars = <<10, 1>>
    /\ Requested.kind = "VarChar"
    /\ ret = Err("Unsupported")

\* C29: try_from_scalars returns Ok exactly when the requested type is not
\* VarChar and every element is representable in the type's element type
\* (always for Scalar and Decimal75, which keep precision and scale);
\* VarChar gives TypeCastError, an unrepresentable element gives
\* ScalarConversionError and no column, and an Ok column has the length
\* and the order of the elements.
C29_OkIffRepresentable ==
    pc = "try_from_scalars" =>
        LET scalars == Unwrapped(arg.scalars)
            fits    == \A k \in 1..Len(scalars) : Representable(scalars[k], Requested.kind)
        IN  /\ ret.tag = "Ok" <=> (Requested.kind # "VarChar" /\ fits)
            /\ Requested.kind = "VarChar" => ret = Err("TypeCastError")
            /\ (Requested.kind # "VarChar" /\ ~fits) => ret = Err("ScalarConversionError")
            /\ ret.tag = "Ok" =>
                  /\ ret.value.kind = Requested.kind
                  /\ ret.value.meta = Requested.meta
                  /\ ret.value.precision = Requested.precision
                  /\ ret.value.scale = Requested.scale
                  /\ Len(ret.value.data) = Len(scalars)
                  /\ \A k \in 1..Len(scalars) :
                        ElementBack(ret.value.data[k], Requested.kind) = scalars[k]

\* the last of three elements does not fit an i8: no column comes back
C29_Witness ==
    /\ pc = "try_from_scalars"
    /\ arg.scalars = <<3, 4, 5>>
    /\ Requested.kind = "TinyInt"
    /\ ret = Err("ScalarConversionError")

\* every value of the array is in the signed range of the field
AllConvertible(list) == \A k \in 1..Len(list) : Geq(MAX_SIGNED, I256Pool[list[k]].mag)

\* C30: an array of type Decimal256(p, s) becomes a Decimal75 column with
\* Precision p and scale s for every p <= 75, and an UnsupportedType error
\* for every p > 75; Precision::new under the guard p <= 75 never fails.
C30_Decimal256UpTo75IsDecimal75 ==
    (pc = "try_from" /\ AllConvertible(arg.values)) =>
        IF arg.precision <= 75
        THEN /\ ret.tag = "Ok"
             /\ ret.value.kind = "Decimal75"
             /\ ret.value.precision = Precision(arg.precision)
             /\ ret.value.scale = arg.scale
        ELSE ret = Err("UnsupportedType")

====
